---- MODULE Spec2Model ----
(***************************************************************************)
(* A model of the GRIB file service (backend/grib_service.py) and of its   *)
(* HTTP endpoints (backend/main.py): the SSRF guard _validate_url, the     *)
(* download path download_file with its file-name resolution, and the      *)
(* storage operations delete_file, _find_file, get_metadata and            *)
(* get_grib_data with the endpoints that answer for them.                  *)
(*                                                                         *)
(* A URL is a record of its syntactic pieces                               *)
(*   scheme "://" [userinfo "@"] ["["] host ["]"] [":" port] path          *)
(* where the host text is a dot-separated list of labels (kind "name"),    *)
(* a dot-separated list of decimal numbers (kind "dotted") or a colon-hex  *)
(* IPv6 text given by its eight 16-bit groups (kind "v6").                 *)
(***************************************************************************)
EXTENDS Integers, Sequences, FiniteSets, TLC

VARIABLES
    vurl,       \* the URL handed to _validate_url (validator specifications)
    vlog,       \* the verdicts of the validations of vurl made so far
    dns,        \* the address the resolver answers for vurl's hostname
    storage,    \* the storage directory: file name -> length in bytes
    calls,      \* the download_file calls, each at its position in the code
    nextId,     \* the identifiers uuid4 has handed out so far, plus one
    deleted,    \* the ids whose files a delete_file call has removed
    results,    \* the results the download_file calls have returned
    answer,     \* the last storage request: what it found and answered
    upcall,     \* the upload_file call, at its position in the code
    uploaded    \* the results the upload_file calls have returned

vvars == <<vurl, vlog, dns>>
svars == <<storage, calls, nextId, deleted, results, answer, upcall, uploaded>>
upvars == <<upcall, uploaded>>
vars ==
    <<vurl, vlog, dns, storage, calls, nextId, deleted, results, answer, upcall,
      uploaded>>

(***************************************************************************)
(* Bounds of the model.                                                    *)
(***************************************************************************)
MaxLabels == 2          \* labels in a hostname
MaxValidations == 2     \* validations of one URL in a validator run
MaxCalls == 2           \* download_file calls in a run of the service
MaxBody == 1            \* bytes in a response body
ChunkLen == 1           \* bytes in a streamed chunk (8192 in the code, scaled)
MaxHops == 1            \* redirects followed in one requests.get call
MaxUploads == 1         \* successful upload_file calls in a run of the service

(***************************************************************************)
(* The inputs: URL texts.                                                  *)
(***************************************************************************)
Schemes == {"http", "https", "HTTP", "ftp", "file", ""}
Labels ==
    {"localhost", "LocalHost", "localdomain", "local", "LOCAL", "example", "com", ""}
Ports == {"", "8000"}
Brackets == {"none", "both", "open"}

SeqsUpTo(S, n) == UNION {[1..k -> S] : k \in 0..n}

\* Host texts made of labels; <<>> is the empty host, a single empty label
\* would be the same text and is left out.
NameTexts == {s \in SeqsUpTo(Labels, MaxLabels) : s # <<"">>}

\* Host texts made of decimal numbers: four parts, or the short form a.d.
FirstOctets == {0, 8, 10, 100, 127, 169, 172, 192, 224, 239, 240, 255, 256}
SecondOctets == {0, 15, 16, 31, 32, 64, 168, 254}
DottedTexts ==
    {<<a, b, 0, 1>> : a \in FirstOctets, b \in SecondOctets}
        \cup {<<a, 1>> : a \in {10, 127}}

\* IPv6 texts, as the eight groups the text denotes.
FirstGroups == {0, 100, 256, 8193, 8194, 9734, 16384, 64512, 65152, 65282}
SecondGroups == {0, 3512}
V6Texts ==
    {<<a, b, 0, 0, 0, m, 0, z>> :
        a \in FirstGroups, b \in SecondGroups, m \in {0, 65535}, z \in {0, 1, 2}}

NameHost(l) == [kind |-> "name", labels |-> l, parts |-> <<>>]
DottedHost(p) == [kind |-> "dotted", labels |-> <<>>, parts |-> p]
V6Host(g) == [kind |-> "v6", labels |-> <<>>, parts |-> g]

Hosts ==
    {NameHost(l) : l \in NameTexts}
        \cup {DottedHost(p) : p \in DottedTexts}
        \cup {V6Host(g) : g \in V6Texts}

\* An IPv6 text holds colons, so it is a host only inside brackets.
Urls ==
    {u \in [scheme : Schemes, userinfo : BOOLEAN, host : Hosts,
            bracket : Brackets, port : Ports] :
        /\ u.host.kind = "v6" => u.bracket # "none"
        /\ u.host.labels = <<>> /\ u.host.kind = "name" =>
                u.bracket = "none" /\ u.port = "" /\ ~u.userinfo}

(***************************************************************************)
(* urllib.parse.urlparse and ParseResult.hostname, as _validate_url uses   *)
(* them.                                                                   *)
(***************************************************************************)
LowerStr(s) ==
    CASE s = "HTTP" -> "http"
      [] s = "LocalHost" -> "localhost"
      [] s = "LOCAL" -> "local"
      [] OTHER -> s

LowerLabels(l) == [i \in 1..Len(l) |-> LowerStr(l[i])]

\* The text of a host: empty or not.
HostEmpty(h) == h.kind = "name" /\ h.labels = <<>>

\* ipaddress.ip_address(text): the address, or ValueError.
IsIPv4Text(h) ==
    /\ h.kind = "dotted"
    /\ Len(h.parts) = 4
    /\ \A i \in 1..4 : h.parts[i] <= 255
IsIPv6Text(h) == h.kind = "v6"
ip_address(h) ==
    IF IsIPv4Text(h) THEN [ok |-> TRUE, version |-> 4, addr |-> h.parts]
    ELSE IF IsIPv6Text(h) THEN [ok |-> TRUE, version |-> 6, addr |-> h.parts]
    ELSE [ok |-> FALSE, version |-> 0, addr |-> <<>>]

\* urlparse(url): raises ValueError for an unbalanced bracket and for a
\* bracketed host that is not an IPv6 address; lower-cases the scheme.
urlparse(u) ==
    IF u.bracket = "open"
    THEN [ok |-> FALSE, error |-> "Invalid IPv6 URL", scheme |-> "", url |-> u]
    ELSE IF u.bracket = "both" /\ IsIPv4Text(u.host)
    THEN [ok |-> FALSE, error |-> "An IPv4 address cannot be in brackets",
          scheme |-> "", url |-> u]
    ELSE IF u.bracket = "both" /\ ~IsIPv6Text(u.host)
    THEN [ok |-> FALSE, error |-> "does not appear to be an IPv4 or IPv6 address",
          scheme |-> "", url |-> u]
    ELSE [ok |-> TRUE, error |-> "", scheme |-> LowerStr(u.scheme), url |-> u]

\* parsed.hostname: the netloc without userinfo, brackets and port, in
\* lower case; None (here NoHost) when that text is empty.
NoHost == [kind |-> "none", labels |-> <<>>, parts |-> <<>>]
hostname(parsed) ==
    LET h == parsed.url.host IN
    IF HostEmpty(h) THEN NoHost
    ELSE [h EXCEPT !.labels = LowerLabels(h.labels)]

(***************************************************************************)
(* The ipaddress predicates _validate_url tests.  An address is the        *)
(* sequence of its units: four octets (IPv4) or eight 16-bit groups.       *)
(***************************************************************************)
RECURSIVE Pow2(_)
Pow2(n) == IF n = 0 THEN 1 ELSE 2 * Pow2(n - 1)

\* addr in net/plen, for units of w bits.
InNet(addr, net, plen, w) ==
    \A i \in 1..Len(addr) :
        LET lo == (i - 1) * w
            unit == IF i <= Len(net) THEN net[i] ELSE 0
        IN  IF plen >= lo + w THEN addr[i] = unit
            ELSE IF plen <= lo THEN TRUE
            ELSE addr[i] \div Pow2(lo + w - plen) = unit \div Pow2(lo + w - plen)

V4PrivateNetworks ==
    { <<<<0, 0, 0, 0>>, 8>>, <<<<10, 0, 0, 0>>, 8>>, <<<<127, 0, 0, 0>>, 8>>,
      <<<<169, 254, 0, 0>>, 16>>, <<<<172, 16, 0, 0>>, 12>>,
      <<<<192, 0, 0, 0>>, 29>>, <<<<192, 0, 0, 170>>, 31>>,
      <<<<192, 0, 2, 0>>, 24>>, <<<<192, 168, 0, 0>>, 16>>,
      <<<<198, 18, 0, 0>>, 15>>, <<<<198, 51, 100, 0>>, 24>>,
      <<<<203, 0, 113, 0>>, 24>>, <<<<240, 0, 0, 0>>, 4>>,
      <<<<255, 255, 255, 255>>, 32>> }

V6PrivateNetworks ==
    { <<<<0, 0, 0, 0, 0, 0, 0, 1>>, 128>>, <<<<0>>, 128>>,
      <<<<0, 0, 0, 0, 0, 65535>>, 96>>, <<<<256>>, 64>>, <<<<8193>>, 23>>,
      <<<<8193, 2>>, 48>>, <<<<8193, 3512>>, 32>>, <<<<8193, 16>>, 28>>,
      <<<<64512>>, 7>>, <<<<65152>>, 10>> }

V6ReservedNetworks ==
    { <<<<0>>, 8>>, <<<<256>>, 8>>, <<<<512>>, 7>>, <<<<1024>>, 6>>,
      <<<<2048>>, 5>>, <<<<4096>>, 4>>, <<<<16384>>, 3>>, <<<<24576>>, 3>>,
      <<<<32768>>, 3>>, <<<<40960>>, 3>>, <<<<49152>>, 3>>, <<<<57344>>, 4>>,
      <<<<61440>>, 5>>, <<<<63488>>, 6>>, <<<<65024>>, 9>> }

InAny(addr, nets, w) == \E n \in nets : InNet(addr, n[1], n[2], w)

\* IPv6Address.ipv4_mapped: the IPv4 address of ::ffff:a.b.c.d, else none.
IsV4Mapped(g) == /\ \A i \in 1..5 : g[i] = 0
                 /\ g[6] = 65535
ipv4_mapped(g) == <<g[7] \div 256, g[7] % 256, g[8] \div 256, g[8] % 256>>

is_private(ip) ==
    IF ip.version = 4 THEN InAny(ip.addr, V4PrivateNetworks, 8)
    ELSE IF IsV4Mapped(ip.addr)
         THEN InAny(ipv4_mapped(ip.addr), V4PrivateNetworks, 8)
         ELSE InAny(ip.addr, V6PrivateNetworks, 16)

is_loopback(ip) ==
    IF ip.version = 4 THEN InNet(ip.addr, <<127, 0, 0, 0>>, 8, 8)
    ELSE ip.addr = <<0, 0, 0, 0, 0, 0, 0, 1>>

is_link_local(ip) ==
    IF ip.version = 4 THEN InNet(ip.addr, <<169, 254, 0, 0>>, 16, 8)
    ELSE InNet(ip.addr, <<65152>>, 10, 16)

is_multicast(ip) ==
    IF ip.version = 4 THEN InNet(ip.addr, <<224, 0, 0, 0>>, 4, 8)
    ELSE InNet(ip.addr, <<65280>>, 8, 16)

is_reserved(ip) ==
    IF ip.version = 4 THEN InNet(ip.addr, <<240, 0, 0, 0>>, 4, 8)
    ELSE InAny(ip.addr, V6ReservedNetworks, 16)

(***************************************************************************)
(* GRIBService._validate_url.  An outcome is the exception that leaves a   *)
(* block of code, or none; a detail is the sequence of the pieces of its   *)
(* text.                                                                   *)
(***************************************************************************)
Returned == [exc |-> "none", status |-> 0, detail |-> <<>>]
HTTPException(status, detail) ==
    [exc |-> "HTTPException", status |-> status, detail |-> detail]
ValueError(msg) == [exc |-> "ValueError", status |-> 0, detail |-> <<msg>>]

DetailScheme == <<"Only HTTP and HTTPS URLs are allowed">>
DetailInvalid == <<"Invalid URL">>
DetailPrivate ==
    <<"Cannot download from private, loopback, link-local, or multicast IP addresses">>
DetailReserved == <<"Cannot download from reserved IP addresses">>
DetailLocalhost == <<"Cannot download from localhost">>
DetailDotLocal == <<"Cannot download from .local domains">>

\* Mutant: ftp let through as well.
SchemeAllowedFtp(scheme) == scheme \in {"http", "https", "ftp"}

\* parsed.scheme in ('http', 'https')
SchemeAllowed(scheme) == scheme \in {"http", "https"}

\* Mutant: the test without ip.is_multicast.
BlockedAddressNoMulticast(ip) ==
    is_private(ip) \/ is_loopback(ip) \/ is_link_local(ip)

\* ip.is_private or ip.is_loopback or ip.is_link_local or ip.is_multicast
BlockedAddress(ip) ==
    is_private(ip) \/ is_loopback(ip) \/ is_link_local(ip) \/ is_multicast(ip)

\* Mutant: 'localhost' alone is blocked.
IsLocalhostOnly(hl) == hl.labels = <<"localhost">>

\* Mutant: every name that starts with 'localhost' is blocked.
IsLocalhostPrefix(hl) == Len(hl.labels) >= 1 /\ hl.labels[1] = "localhost"

\* hostname_lower in ('localhost', 'localhost.localdomain')
IsLocalhostName(hl) ==
    hl.labels \in {<<"localhost">>, <<"localhost", "localdomain">>}

\* hostname_lower.endswith('.local')
EndsWithDotLocal(hl) ==
    /\ Len(hl.labels) >= 2
    /\ hl.labels[Len(hl.labels)] = "local"

\* Mutant: the reserved ranges tested first.
CheckAddressReservedFirst(ip) ==
    IF is_reserved(ip) THEN HTTPException(400, DetailReserved)
    ELSE IF BlockedAddress(ip) THEN HTTPException(400, DetailPrivate)
    ELSE Returned

\* The branch for a host that is an IP address (lines 130-144).
CheckAddress(ip) ==
    IF BlockedAddress(ip) THEN HTTPException(400, DetailPrivate)
    ELSE IF is_reserved(ip) THEN HTTPException(400, DetailReserved)
    ELSE Returned

\* Mutant: the name is resolved and the resolved address is tested too.
CheckHostnameResolved(host) ==
    LET hostname_lower == [host EXCEPT !.labels = LowerLabels(host.labels)] IN
    IF IsLocalhostName(hostname_lower) THEN HTTPException(400, DetailLocalhost)
    ELSE IF EndsWithDotLocal(hostname_lower) THEN HTTPException(400, DetailDotLocal)
    ELSE CheckAddress([ok |-> TRUE, version |-> 4, addr |-> dns])

\* The branch for a host that is not an IP address (lines 146-162).
CheckHostname(host) ==
    LET hostname_lower == [host EXCEPT !.labels = LowerLabels(host.labels)] IN
    IF IsLocalhostName(hostname_lower) THEN HTTPException(400, DetailLocalhost)
    ELSE IF EndsWithDotLocal(hostname_lower) THEN HTTPException(400, DetailDotLocal)
    ELSE Returned

\* The body of the try block (lines 115-162).
ValidateBody(url) ==
    LET parsed == urlparse(url) IN
    IF ~parsed.ok THEN ValueError(parsed.error)
    ELSE IF ~SchemeAllowed(parsed.scheme) THEN HTTPException(400, DetailScheme)
    ELSE LET host == hostname(parsed) IN
         IF host = NoHost THEN HTTPException(400, DetailInvalid)
         ELSE LET ip == ip_address(host) IN
              IF ip.ok THEN CheckAddress(ip) ELSE CheckHostname(host)

\* The try block with its handlers (lines 114-167): an HTTPException is
\* raised again, any other exception becomes a 400 "Invalid URL: ...".
_validate_url(url) ==
    LET r == ValidateBody(url) IN
    IF r.exc = "HTTPException" THEN r
    ELSE IF r.exc # "none" THEN HTTPException(400, <<"Invalid URL: ">> \o r.detail)
    ELSE Returned

(***************************************************************************)
(* The storage directory.  A file name is {id}.{ext} or, for a sidecar     *)
(* index, {id}.{ext}.idx: the record of its id and of its suffixes.        *)
(***************************************************************************)
GRIB_EXTENSIONS == {"grib", "grib2", "grb", "grb2", "nc"}

FileName(id, exts) == [id |-> id, exts |-> exts]
Suffix(name) == name.exts[Len(name.exts)]

Put(st, name, size) ==
    [n \in DOMAIN st \cup {name} |-> IF n = name THEN size ELSE st[n]]
Unlink(st, names) == [n \in DOMAIN st \ names |-> st[n]]
EmptyDir == [n \in {} |-> 0]

\* The file_id texts a request can carry: the identifiers, and the text
\* "*", which is written as the number after the last identifier.
Star == MaxCalls + 1
FileIdTexts == (1..MaxCalls) \cup {Star}

\* The pattern f"{file_id}" against the id of a file name: the text of an
\* identifier matches itself, "*" matches every text.
GlobMatch(file_id, id) == file_id = Star \/ file_id = id

\* storage_path.glob(f"{file_id}.*")
Glob(st, file_id) == {n \in DOMAIN st : GlobMatch(file_id, n.id)}

NoPath == FileName(0, <<>>)
FileNotFoundError == [exc |-> "FileNotFoundError", status |-> 0, detail |-> <<>>]

\* Mutant: the first match is returned, whatever its suffix.
_find_fileAnyMatch(st, file_id) ==
    LET matching_files == Glob(st, file_id) IN
    IF matching_files = {} THEN [out |-> FileNotFoundError, paths |-> {}]
    ELSE [out |-> Returned, paths |-> matching_files]

\* GRIBService._find_file: the outcome and the paths that can be the first
\* of the list (glob gives no order).
_find_file(st, file_id) ==
    LET matching_files == Glob(st, file_id)
        grib_files == {f \in matching_files : Suffix(f) \in GRIB_EXTENSIONS}
    IN  IF matching_files = {} THEN [out |-> FileNotFoundError, paths |-> {}]
        ELSE IF grib_files # {}
             THEN [out |-> Returned, paths |-> grib_files]
             ELSE [out |-> Returned, paths |-> matching_files]

\* Mutant: only the data files are unlinked, a sidecar index stays.
delete_fileDataOnly(st, file_id) ==
    LET matching_files == Glob(st, file_id)
        grib_files == {f \in matching_files : Suffix(f) \in GRIB_EXTENSIONS}
    IN  IF matching_files = {} THEN [out |-> FileNotFoundError, storage |-> st]
        ELSE [out |-> Returned, storage |-> Unlink(st, grib_files)]

\* GRIBService.delete_file: the outcome and the directory it leaves.
delete_file(st, file_id) ==
    LET matching_files == Glob(st, file_id) IN
    IF matching_files = {} THEN [out |-> FileNotFoundError, storage |-> st]
    ELSE [out |-> Returned, storage |-> Unlink(st, matching_files)]

\* xr.open_dataset(file_path, engine=engine): the cfgrib engine, used for the
\* GRIB suffixes other than nc, leaves an index file beside the file.
open_dataset(st, file_path) ==
    IF Suffix(file_path) \in GRIB_EXTENSIONS \ {"nc"}
    THEN Put(st, FileName(file_path.id, file_path.exts \o <<"idx">>), 1)
    ELSE st

\* GRIBService.get_metadata up to the opening of the dataset: the outcomes
\* and the directories it can leave, one for each file _find_file can give.
get_metadata(st, file_id) ==
    LET found == _find_file(st, file_id) IN
    IF found.out.exc # "none" THEN {[out |-> found.out, storage |-> st]}
    ELSE {[out |-> Returned, storage |-> open_dataset(st, file_path)] :
              file_path \in found.paths}

\* GRIBService.get_grib_data up to the opening of the dataset.
get_grib_data(st, file_id) ==
    LET found == _find_file(st, file_id) IN
    IF found.out.exc # "none" THEN {[out |-> found.out, storage |-> st]}
    ELSE {[out |-> Returned, storage |-> open_dataset(st, file_path)] :
              file_path \in found.paths}

(***************************************************************************)
(* GRIBService.list_files.  The change time of a file (st_ctime) is what   *)
(* the writes to it made it; a listing is computed for the directory and   *)
(* the change times of its files, and for each order glob can give.        *)
(***************************************************************************)
\* GRIB_EXTENSIONS in the order of the list (line 29).
ExtensionOrder == <<"grib", "grib2", "grb", "grb2", "nc">>

Times == {1, 2}

\* storage_path.glob(f"*{ext}")
GlobExt(st, ext) == {n \in DOMAIN st : Suffix(n) = ext}

\* The change times the files of the directory can have.
Ctimes(st) == [{n \in DOMAIN st : Suffix(n) \in GRIB_EXTENSIONS} -> Times]

\* The orders in which glob can give the files of a set.
RECURSIVE Orders(_)
Orders(S) ==
    IF S = {} THEN {<<>>}
    ELSE UNION {{<<n>> \o rest : rest \in Orders(S \ {n})} : n \in S}

\* Lines 51-61: the entry of one file; the stem of {id}.{ext} is id.
FileInfo(st, ctime, file_path) ==
    [id |-> file_path.id, filename |-> file_path, size |-> st[file_path],
     uploaded_at |-> ctime[file_path], path |-> file_path]

\* Lines 49-61: the lists the two loops can build, from extension i on.
RECURSIVE ListedFrom(_, _, _)
ListedFrom(st, ctime, i) ==
    IF i > Len(ExtensionOrder) THEN {<<>>}
    ELSE {[k \in 1..Len(first) |-> FileInfo(st, ctime, first[k])] \o rest :
              first \in Orders(GlobExt(st, ExtensionOrder[i])),
              rest \in ListedFrom(st, ctime, i + 1)}

\* Lines 63-68: the first entry of each id.
RECURSIVE Unique(_, _)
Unique(files, seen_ids) ==
    IF files = <<>> THEN <<>>
    ELSE IF Head(files).id \in seen_ids THEN Unique(Tail(files), seen_ids)
    ELSE <<Head(files)>> \o Unique(Tail(files), seen_ids \cup {Head(files).id})

\* The entry put into a list sorted newest first, after the entries that
\* are not older (sorted is stable).
RECURSIVE Insert(_, _)
Insert(sorted, file_info) ==
    IF sorted = <<>> THEN <<file_info>>
    ELSE IF Head(sorted).uploaded_at >= file_info.uploaded_at
         THEN <<Head(sorted)>> \o Insert(Tail(sorted), file_info)
         ELSE <<file_info>> \o sorted

\* Mutant: the list is returned in the order it was built.
SortedByTimeUnsorted(files) == files

\* Line 69: sorted(unique_files, key=uploaded_at, reverse=True)
RECURSIVE SortedByTime(_)
SortedByTime(files) ==
    IF files = <<>> THEN <<>>
    ELSE Insert(SortedByTime(SubSeq(files, 1, Len(files) - 1)), files[Len(files)])

\* GRIBService.list_files: the lists it can return.
list_files(st, ctime) ==
    {SortedByTime(Unique(files, {})) : files \in ListedFrom(st, ctime, 1)}

(***************************************************************************)
(* GRIBService.download_file.  A request is the URL with the file name its *)
(* path ends in and the values of its "file" query parameter; a response   *)
(* is what requests.get answers: an error (connection, timeout, non-2xx    *)
(* status) or the Content-Disposition and Content-Type headers and a body. *)
(* A text (a file name, a header value) is the sequence of its             *)
(* dot-separated components, <<>> for none and for the empty text:         *)
(* "../evil.nc" is <<"", "", "/evil", "nc">>.                              *)
(***************************************************************************)
NoName == <<>>
PathNames == {NoName, <<"data", "nc">>}

\* The last path segments of the URLs of the name-resolution runs, as they
\* stand in the URL (percent-encoded).
UrlPathNames ==
    { NoName, <<"data", "nc">>, <<"notes", "txt">>, <<"filter", "pl">>,
      <<"my%20storm", "grib2">>, <<"data", "GRIB2">>, <<"grib2">>,
      <<"archive", "tar", "gz">>, <<"", "grib2">>, <<"a%2Fb", "grb">> }

\* The values of the "file" parameter of the query, in order; NoName is a
\* blank value ("file=").
NoParam == <<>>
FileParams ==
    { NoParam, <<NoName>>, << <<"gfs", "grb2">> >>,
      << <<"", "", "/evil", "nc">> >>,
      << NoName, <<"gfs", "grb2">>, <<"other", "grib">> >> }

\* A Content-Disposition header: its filename and filename* parameters in
\* order.  value is the text between the quotes (quoted) or up to the next
\* ";", for filename* the text after the charset prefix UTF-8''.
Param(star, quoted, value) == [star |-> star, quoted |-> quoted, value |-> value]
NoHeader == <<>>
CdHeaders ==
    { NoHeader,
      <<Param(FALSE, TRUE, <<"storm", "grib2">>)>>,
      <<Param(FALSE, FALSE, <<"my%20storm", "grib2">>)>>,
      <<Param(FALSE, TRUE, <<"notes", "txt">>)>>,
      <<Param(FALSE, TRUE, <<"", "", "/evil", "nc">>)>>,
      <<Param(FALSE, TRUE, NoName)>>,
      <<Param(TRUE, FALSE, <<"storm", "grib2">>)>>,
      <<Param(FALSE, TRUE, <<"plain", "grb">>), Param(TRUE, FALSE, <<"storm", "grib2">>)>>,
      <<Param(TRUE, FALSE, <<"storm", "grib2">>), Param(FALSE, TRUE, <<"plain", "grb">>)>> }

ContentTypes == {"", "application/octet-stream", "application/x-grib", "text/html"}

HttpUrl(scheme, host, port) ==
    [scheme |-> scheme, userinfo |-> FALSE, host |-> host,
     bracket |-> "none", port |-> port]

ServiceUrls ==
    { HttpUrl("http", DottedHost(<<192, 168, 0, 1>>), ""),
      HttpUrl("http", NameHost(<<"localhost">>), "8000"),
      HttpUrl("file", NameHost(<<>>), ""),
      HttpUrl("https", NameHost(<<"example", "com">>), "") }

\* The Location URLs of the redirects requests.get has followed.
NoHops == <<>>

ErrorResponse ==
    [status |-> "error", hops |-> NoHops, cd |-> NoHeader, ct |-> "", body |-> 0]

Requests == [url : ServiceUrls, pathname : PathNames, fileparam : {NoParam}]
Responses ==
    {ErrorResponse}
        \cup [status : {"ok"}, hops : {NoHops}, cd : {NoHeader}, ct : {""},
               body : 0..MaxBody]

\* The exchanges of the service runs: a rejected URL is asked for with one
\* path only (the path is not looked at), and the responses carry no
\* Content-Disposition header.
Exchanges ==
    {x \in [req : Requests, resp : Responses] :
        /\ x.req.url.scheme # "https" => x.req.pathname # NoName
        /\ x.resp.cd = NoHeader}

\* The exchanges of the runs that mix uploads and downloads: the public URL
\* answered with a whole body.
FileExchanges ==
    {x \in Exchanges :
        /\ x.req.url.scheme = "https"
        /\ x.resp.status = "ok"
        /\ x.resp.body = MaxBody}

\* The exchanges of the name-resolution runs: one public URL, every shape
\* of path, query and response headers, one body.
ResolveExchanges ==
    [req : [url : {HttpUrl("https", NameHost(<<"example", "com">>), "")},
            pathname : UrlPathNames, fileparam : FileParams],
     resp : [status : {"ok"}, hops : {NoHops}, cd : CdHeaders, ct : ContentTypes,
             body : {MaxBody}]]

\* The exchanges of the redirect runs: the first response may redirect, and
\* requests.get follows the Location headers (allow_redirects is left at its
\* default) to the response it returns.
RedirectTargets ==
    { HttpUrl("https", NameHost(<<"example", "com">>), ""),
      HttpUrl("http", DottedHost(<<169, 254, 169, 254>>), ""),
      HttpUrl("http", DottedHost(<<10, 0, 0, 1>>), ""),
      HttpUrl("http", NameHost(<<"localhost">>), "8000") }
FetchExchanges ==
    [req : Requests,
     resp : [status : {"ok", "error"}, hops : SeqsUpTo(RedirectTargets, MaxHops),
             cd : {NoHeader}, ct : {""}, body : 0..MaxBody]]

Calls == 1..MaxCalls
Ids == 1..MaxCalls

\* urllib.parse.unquote on one component: the percent escapes decoded.
UnquoteStr(s) ==
    CASE s = "my%20storm" -> "my storm"
      [] s = "a%2Fb" -> "a/b"
      [] OTHER -> s
unquote(text) == [i \in 1..Len(text) |-> UnquoteStr(text[i])]

\* The components that hold a "/", and what follows their last "/".
HasSlash(s) == s \in {"/evil", "a/b"}
SlashTail(s) ==
    CASE s = "/evil" -> "evil"
      [] s = "a/b" -> "b"
      [] OTHER -> s

Max(S) == CHOOSE m \in S : \A k \in S : k <= m

\* Path(text).name: what follows the last "/".
PathName(text) ==
    LET slashes == {k \in 1..Len(text) : HasSlash(text[k])} IN
    IF slashes = {} THEN text
    ELSE <<SlashTail(text[Max(slashes)])>>
            \o SubSeq(text, Max(slashes) + 1, Len(text))

\* Path(filename).suffix, without its dot; "" for none.  pathlib takes what
\* follows the last dot of the name, unless that dot starts or ends the name.
PathSuffix(filename) ==
    LET name == PathName(filename)
        n == Len(name)
    IN  IF n >= 2 /\ name[n] # "" /\ ~(n = 2 /\ name[1] = "")
        THEN name[n] ELSE ""

\* Path(filename).stem: the name without its suffix.
PathStem(filename) ==
    LET name == PathName(filename) IN
    IF PathSuffix(filename) # "" THEN SubSeq(name, 1, Len(name) - 1) ELSE name

\* text.endswith("." + ext)
EndsWith(text, ext) == Len(text) >= 2 /\ text[Len(text)] = ext

\* The raw text of a parameter's value, as the header carries it.
RawValue(p) ==
    [quoted |-> p.quoted,
     text |-> IF p.star /\ p.value # NoName
              THEN <<"UTF-8''" \o p.value[1]>> \o Tail(p.value)
              ELSE p.value]

\* re.search(r'filename[*]?=([^;]+)', content_disposition): the group of the
\* first parameter with a non-empty raw value, [quoted, text]; NoName text
\* when the pattern does not match.
MatchGroup(cd) ==
    LET hits == {i \in 1..Len(cd) : cd[i].quoted \/ cd[i].value # NoName} IN
    IF hits = {} THEN [quoted |-> FALSE, text |-> NoName]
    ELSE RawValue(cd[CHOOSE i \in hits : \A k \in hits : i <= k])

\* group.strip('"\''): the quotes around the text removed.
StripQuotes(group) == group.text

\* Lines 196-201: the file name of the Content-Disposition header.  The
\* text "filename=" is in the header when a plain filename parameter is.
HeaderFilename(cd) ==
    IF \E i \in 1..Len(cd) : ~cd[i].star
    THEN unquote(StripQuotes(MatchGroup(cd)))
    ELSE NoName

\* parse_qs(parsed_url.query).get('file'): the non-blank values, decoded.
parse_qs(fileparam) ==
    LET kept == SelectSeq(fileparam, LAMBDA v : v # NoName) IN
    [i \in 1..Len(kept) |-> unquote(kept[i])]

\* Mutant: the file parameter is used whatever the path's name ends with.
UrlFilenameAnyScript(req) ==
    LET filename == PathName(unquote(req.pathname))
        query_params == parse_qs(req.fileparam)
    IN  IF filename # NoName /\ query_params # <<>>
        THEN query_params[1] ELSE filename

\* Lines 205-211: the file name of the URL: the decoded path's name, or for
\* a .pl script the first value of the file parameter.
UrlFilename(req) ==
    LET filename == PathName(unquote(req.pathname))
        query_params == parse_qs(req.fileparam)
    IN  IF filename # NoName /\ EndsWith(filename, "pl") /\ query_params # <<>>
        THEN query_params[1] ELSE filename

\* Mutant: the URL's name is preferred to the header's.
ResolveFilenameUrlFirst(resp, req) ==
    IF UrlFilename(req) # NoName THEN UrlFilename(req) ELSE HeaderFilename(resp.cd)

\* Lines 196-211: the Content-Disposition name, else the URL's name.
ResolveFilename(resp, req) ==
    IF HeaderFilename(resp.cd) # NoName THEN HeaderFilename(resp.cd)
    ELSE UrlFilename(req)

\* Line 223: 'grib' in content_type or 'octet-stream' in content_type
IsGribType(content_type) ==
    content_type \in {"application/octet-stream", "application/x-grib"}

\* Mutant: without a file name, the Content-Type decides the extension.
ResolveExtensionByType(filename, content_type) ==
    IF filename # NoName
    THEN IF PathSuffix(filename) \in GRIB_EXTENSIONS
         THEN PathSuffix(filename) ELSE "grib2"
    ELSE IF IsGribType(content_type) THEN "grib2" ELSE "bin"

\* Lines 214-226: the extension, without its dot.
ResolveExtension(filename, content_type) ==
    IF filename # NoName
    THEN IF PathSuffix(filename) \in GRIB_EXTENSIONS
         THEN PathSuffix(filename) ELSE "grib2"
    ELSE IF IsGribType(content_type) THEN "grib2" ELSE "grib2"

\* Mutant: the generated name does not carry the identifier.
DisplayFilenameNoId(filename, file_id, ext) ==
    LET named == IF filename = NoName THEN <<"grib_download_", ext>> ELSE filename
    IN  IF EndsWith(named, ext) THEN named ELSE PathStem(named) \o <<ext>>

\* Mutant: the name is returned as resolved.
DisplayFilenameAsResolved(filename, file_id, ext) ==
    IF filename = NoName
    THEN <<"grib_download_" \o ToString(file_id), ext>> ELSE filename

\* Lines 229-234: the display file name.
DisplayFilename(filename, file_id, ext) ==
    LET named == IF filename = NoName
                 THEN <<"grib_download_" \o ToString(file_id), ext>>
                 ELSE filename
    IN  IF EndsWith(named, ext) THEN named ELSE PathStem(named) \o <<ext>>

RaisedError(name) == [exc |-> name, status |-> 0, detail |-> <<name>>]

NoResult == [id |-> 0, filename |-> NoName, size |-> 0, path |-> NoPath]
NoRequest ==
    [url |-> HttpUrl("", NameHost(<<>>), ""), pathname |-> NoName,
     fileparam |-> NoParam]
NoReply ==
    [status |-> "none", hops |-> NoHops, cd |-> NoHeader, ct |-> "", body |-> 0]
NoResponse == [status |-> 0, detail |-> <<>>]

IdleCall ==
    [pc |-> "idle", req |-> NoRequest, resp |-> NoReply, id |-> 0, ext |-> "",
     resolved |-> NoName, filename |-> NoName,
     body |-> 0, got |-> 0, gets |-> 0, sent |-> <<>>, out |-> Returned,
     result |-> NoResult,
     http |-> NoResponse]

\* GRIBService.upload_file: the original file names of the uploads, NoName
\* for a part without a file name.
UploadNames ==
    { NoName, <<"storm", "grib2">>, <<"notes", "txt">>, <<"README">>,
      <<"", "", "/evil", "nc">> }

IdleUpload ==
    [pc |-> "idle", filename |-> NoName, original_name |-> NoName, id |-> 0,
     ext |-> "", size |-> 0, out |-> Returned, result |-> NoResult,
     http |-> NoResponse]

\* download_file has returned or raised in call c and the endpoint is
\* answering: no other coroutine runs until the answer is made.
Answering(c) == calls[c].pc \in {"done", "failed"}
Quiet == (\A c \in Calls : ~Answering(c)) /\ upcall.pc \notin {"done", "failed"}

\* str(e) for the exception e that left download_file.
ExcText(out) ==
    IF out.exc = "HTTPException"
    THEN <<ToString(out.status), ": ">> \o out.detail
    ELSE out.detail

\* main.download_grib_file: the response to GET /api/grib/download, from the
\* outcome of grib_service.download_file.  The handler catches Exception,
\* and HTTPException is one.
download_grib_file(out) ==
    IF out.exc = "none" THEN [status |-> 200, detail |-> <<>>]
    ELSE [status |-> 500, detail |-> ExcText(out)]

NotFound404 == [status |-> 404, detail |-> <<"GRIB file not found">>]

\* Mutant: the handler has the generic except clause only.
delete_grib_fileGeneric(out) ==
    IF out.exc = "none" THEN [status |-> 200, detail |-> <<>>]
    ELSE [status |-> 500, detail |-> ExcText(out)]

\* main.delete_grib_file: the response to DELETE /api/grib/files/{file_id}.
delete_grib_file(out) ==
    IF out.exc = "none" THEN [status |-> 200, detail |-> <<>>]
    ELSE IF out.exc = "FileNotFoundError" THEN NotFound404
    ELSE [status |-> 500, detail |-> ExcText(out)]

\* main.upload_grib_file: the response to POST /api/grib/upload.
upload_grib_file(out) ==
    IF out.exc = "none" THEN [status |-> 200, detail |-> <<>>]
    ELSE [status |-> 500, detail |-> ExcText(out)]

\* main.list_grib_files: the response to GET /api/grib/files.
list_grib_files(out) ==
    IF out.exc = "none" THEN [status |-> 200, detail |-> <<>>]
    ELSE [status |-> 500, detail |-> ExcText(out)]

\* main.get_grib_metadata: the response to GET /api/grib/metadata/{file_id}.
get_grib_metadata(out) ==
    IF out.exc = "none" THEN [status |-> 200, detail |-> <<>>]
    ELSE IF out.exc = "FileNotFoundError" THEN NotFound404
    ELSE [status |-> 500, detail |-> ExcText(out)]

\* main.get_grib_data: the response to GET /api/grib/data/{file_id}.
main_get_grib_data(out) ==
    IF out.exc = "none" THEN [status |-> 200, detail |-> <<>>]
    ELSE IF out.exc = "FileNotFoundError" THEN NotFound404
    ELSE [status |-> 500, detail |-> ExcText(out)]

Fail(call, out) ==
    [call EXCEPT !.pc = "failed", !.out = out, !.http = download_grib_file(out)]

\* Mutant: the GET is sent before the URL is validated.
RejectionAfterGet(call, verdict) == Fail([call EXCEPT !.gets = @ + 1], verdict)

\* Line 183: the exception of _validate_url leaves download_file.
Rejection(call, verdict) == Fail(call, verdict)

\* Line 189: the URLs requests.get sends a GET to: the one it is given, then
\* the Location of each redirect it is answered.
requests_get(url, resp) == <<url>> \o resp.hops

\* Mutant: uuid4 gives a call the identifier it gave the call before.
uuid4Repeated == IF nextId > 1 THEN nextId - 1 ELSE nextId

\* Line 186: str(uuid.uuid4()), an identifier no earlier call was given.
uuid4 == nextId

\* Lines 183-234: validation, uuid4, the GET and the name resolution run
\* without a suspension point.
DownloadStart(c, req, resp) ==
    /\ Quiet
    /\ calls[c].pc = "idle"
    /\ \A b \in 1..(c - 1) : calls[b].pc # "idle"    \* call c is the c-th to start
    /\ LET verdict == _validate_url(req.url)
           started == [calls[c] EXCEPT !.req = req]
       IN  IF verdict.exc # "none"
           THEN /\ calls' = [calls EXCEPT ![c] = Rejection(started, verdict)]
                /\ UNCHANGED nextId
           ELSE LET file_id == uuid4
                    sent == [started EXCEPT !.id = file_id,
                                            !.gets = @ + Len(requests_get(req.url, resp)),
                                            !.sent = requests_get(req.url, resp),
                                            !.resp = resp]
                    filename == ResolveFilename(resp, req)
                    ext == ResolveExtension(filename, resp.ct)
                IN  /\ nextId' = nextId + 1
                    /\ calls' = [calls EXCEPT ![c] =
                         IF resp.status # "ok"
                         THEN Fail(sent, RaisedError("RequestException"))
                         ELSE [sent EXCEPT !.pc = "open", !.ext = ext,
                                 !.resolved = filename,
                                 !.filename = DisplayFilename(filename, file_id, ext),
                                 !.body = resp.body]]
    /\ UNCHANGED <<storage, deleted, results>>

\* Mutant: the file is stored under the display file name.
FilePathNamed(call) == FileName(call.id, call.filename)

\* Line 236: storage_path / f"{file_id}{ext}"
FilePath(call) == FileName(call.id, <<call.ext>>)

ClosedCall == [IdleCall EXCEPT !.pc = "closed"]

\* main.download_grib_file hands its answer to the framework (lines 113-118);
\* the call is over.
DownloadReturn(c) ==
    /\ Answering(c)
    /\ calls' = [calls EXCEPT ![c] = ClosedCall]
    /\ UNCHANGED <<storage, nextId, deleted, results>>

\* Line 238: aiofiles.open(file_path, 'wb') creates or truncates the file.
DownloadOpen(c) ==
    /\ Quiet
    /\ calls[c].pc = "open"
    /\ storage' = Put(storage, FilePath(calls[c]), 0)
    /\ calls' = [calls EXCEPT ![c].pc = "write"]
    /\ UNCHANGED <<nextId, deleted, results>>

Min(a, b) == IF a <= b THEN a ELSE b

\* Lines 239-240: one chunk read from the response and written.  A file
\* unlinked meanwhile keeps no name: the bytes go to the open descriptor.
DownloadWrite(c) ==
    /\ Quiet
    /\ calls[c].pc = "write"
    /\ calls[c].got < calls[c].body
    /\ LET n == Min(ChunkLen, calls[c].body - calls[c].got)
           path == FilePath(calls[c])
       IN  /\ storage' = IF path \in DOMAIN storage
                         THEN [storage EXCEPT ![path] = @ + n] ELSE storage
           /\ calls' = [calls EXCEPT ![c].got = @ + n]
    /\ UNCHANGED <<nextId, deleted, results>>

\* Lines 238-240: reading a chunk or writing it raises; the async with
\* block closes the file and the exception leaves download_file.
DownloadStreamError(c, name) ==
    /\ Quiet
    /\ calls[c].pc = "write"
    /\ calls[c].got < calls[c].body
    /\ calls' = [calls EXCEPT ![c] = Fail(calls[c], RaisedError(name))]
    /\ UNCHANGED <<storage, nextId, deleted, results>>

\* Mutant: the result is made without waiting for the last chunks.
DownloadFinishEarly(c) ==
    /\ Quiet
    /\ calls[c].pc = "write"
    /\ LET path == FilePath(calls[c])
           info == [id |-> calls[c].id, filename |-> calls[c].filename,
                    size |-> storage[path], path |-> path]
       IN  IF path \in DOMAIN storage
           THEN /\ calls' = [calls EXCEPT ![c] =
                        [calls[c] EXCEPT !.pc = "done", !.result = info,
                                         !.http = download_grib_file(Returned)]]
                /\ results' = results \cup {info}
           ELSE /\ calls' = [calls EXCEPT ![c] = Fail(calls[c], FileNotFoundError)]
                /\ UNCHANGED results
    /\ UNCHANGED <<storage, nextId, deleted>>

\* Lines 242-249: stat of the file and the result.
DownloadFinish(c) ==
    /\ Quiet
    /\ calls[c].pc = "write"
    /\ calls[c].got = calls[c].body
    /\ LET path == FilePath(calls[c])
           info == [id |-> calls[c].id, filename |-> calls[c].filename,
                    size |-> storage[path], path |-> path]
       IN  IF path \in DOMAIN storage
           THEN /\ calls' = [calls EXCEPT ![c] =
                        [calls[c] EXCEPT !.pc = "done", !.result = info,
                                         !.http = download_grib_file(Returned)]]
                /\ results' = results \cup {info}
           ELSE /\ calls' = [calls EXCEPT ![c] = Fail(calls[c], FileNotFoundError)]
                /\ UNCHANGED results
    /\ UNCHANGED <<storage, nextId, deleted>>

\* A delete_file(file_id) call (lines 259-266), run without suspension.
DeleteFile(file_id) ==
    /\ Quiet
    /\ LET r == delete_file(storage, file_id) IN
        /\ storage' = r.storage
        /\ deleted' = IF r.out.exc = "none" THEN deleted \cup {file_id} ELSE deleted
    /\ UNCHANGED <<calls, nextId, results>>

\* A get_metadata(file_id) call (lines 301-307): opening a GRIB file with
\* the cfgrib engine leaves an index file beside it.
GetMetadata(file_id) ==
    /\ Quiet
    /\ \E r \in get_metadata(storage, file_id) : storage' = r.storage
    /\ UNCHANGED <<calls, nextId, deleted, results>>

\* Mutant: a file name without a suffix is stored with the download default.
upload_extGrib2(original_name) ==
    IF PathSuffix(original_name) # "" THEN PathSuffix(original_name) ELSE "grib2"

\* Line 85: Path(original_name).suffix or ".grib", without its dot.
upload_ext(original_name) ==
    IF PathSuffix(original_name) # "" THEN PathSuffix(original_name) ELSE "grib"

\* Line 88: storage_path / f"{file_id}{ext}"
UploadPath == FileName(upcall.id, <<upcall.ext>>)

\* Lines 81-88 of upload_file: the id, the original name and the extension.
UploadStart(filename, size) ==
    /\ Quiet
    /\ upcall.pc = "idle"
    /\ nextId <= MaxCalls
    /\ Cardinality(uploaded) < MaxUploads
    /\ LET original_name == IF filename # NoName THEN filename
                             ELSE <<"upload", "grib">>
       IN  upcall' = [IdleUpload EXCEPT
                        !.pc = "open", !.filename = filename,
                        !.original_name = original_name, !.id = uuid4,
                        !.ext = upload_ext(original_name), !.size = size]
    /\ nextId' = nextId + 1
    /\ UNCHANGED <<storage, calls, deleted, results, uploaded>>

\* Line 90: aiofiles.open(file_path, 'wb') creates the file.
UploadOpen ==
    /\ Quiet
    /\ upcall.pc = "open"
    /\ storage' = Put(storage, UploadPath, 0)
    /\ upcall' = [upcall EXCEPT !.pc = "write"]
    /\ UNCHANGED <<calls, nextId, deleted, results, uploaded>>

\* Lines 91-92: the content is read and written in one write.  A file
\* unlinked meanwhile keeps no name.
UploadWrite ==
    /\ Quiet
    /\ upcall.pc = "write"
    /\ storage' = IF UploadPath \in DOMAIN storage
                  THEN [storage EXCEPT ![UploadPath] = upcall.size] ELSE storage
    /\ upcall' = [upcall EXCEPT !.pc = "stat"]
    /\ UNCHANGED <<calls, nextId, deleted, results, uploaded>>

\* Lines 94-101: stat of the file and the result; main.upload_grib_file
\* answers (main.py lines 99-107).
UploadFinish ==
    /\ Quiet
    /\ upcall.pc = "stat"
    /\ LET info == [id |-> upcall.id, filename |-> upcall.original_name,
                    size |-> storage[UploadPath], path |-> UploadPath]
       IN  IF UploadPath \in DOMAIN storage
           THEN /\ upcall' = [upcall EXCEPT !.pc = "done", !.result = info,
                                  !.http = upload_grib_file(Returned)]
                /\ uploaded' = uploaded \cup {info}
           ELSE /\ upcall' = [upcall EXCEPT !.pc = "failed",
                                  !.out = FileNotFoundError,
                                  !.http = upload_grib_file(FileNotFoundError)]
                /\ UNCHANGED uploaded
    /\ UNCHANGED <<storage, calls, nextId, deleted, results>>

\* The answer is handed to the framework; the call is over.
UploadReturn ==
    /\ upcall.pc \in {"done", "failed"}
    /\ upcall' = IdleUpload
    /\ UNCHANGED <<storage, calls, nextId, deleted, results, uploaded>>

\* The record of a storage request: the operation, its argument, the
\* directory it found, its outcome, the path it returned and the response.
Answer(op, file_id, out, path, http) ==
    [op |-> op, file_id |-> file_id, before |-> storage, out |-> out,
     path |-> path, files |-> <<>>, http |-> http]
NoAnswer == [op |-> "none", file_id |-> 0, before |-> EmptyDir, out |-> Returned,
             path |-> NoPath, files |-> <<>>, http |-> NoResponse]

\* GET /api/grib/files (main.py lines 88-96): list_files has no suspension
\* point and runs as one step.
ListRequest ==
    /\ Quiet
    /\ \E ctime \in Ctimes(storage) : \E files \in list_files(storage, ctime) :
        answer' = [Answer("list", 0, Returned, NoPath, list_grib_files(Returned))
                      EXCEPT !.files = files]
    /\ UNCHANGED <<storage, calls, nextId, deleted, results>>

\* A call of _find_file(file_id).
FindFile(file_id) ==
    /\ LET found == _find_file(storage, file_id) IN
        \E path \in (IF found.paths = {} THEN {NoPath} ELSE found.paths) :
            answer' = Answer("find", file_id, found.out, path, NoResponse)
    /\ UNCHANGED <<storage, calls, nextId, deleted, results>>

\* GET /api/grib/metadata/{file_id} (main.py lines 138-148).
MetadataRequest(file_id) ==
    /\ Quiet
    /\ \E r \in get_metadata(storage, file_id) :
        /\ storage' = r.storage
        /\ answer' = Answer("metadata", file_id, r.out, NoPath, get_grib_metadata(r.out))
    /\ UNCHANGED <<calls, nextId, deleted, results>>

\* GET /api/grib/data/{file_id} (main.py lines 121-135).
DataRequest(file_id) ==
    /\ Quiet
    /\ \E r \in get_grib_data(storage, file_id) :
        /\ storage' = r.storage
        /\ answer' = Answer("data", file_id, r.out, NoPath, main_get_grib_data(r.out))
    /\ UNCHANGED <<calls, nextId, deleted, results>>

\* DELETE /api/grib/files/{file_id} (main.py lines 151-161).
DeleteRequest(file_id) ==
    /\ DeleteFile(file_id)
    /\ LET out == delete_file(storage, file_id).out IN
        answer' = Answer("delete", file_id, out, NoPath, delete_grib_file(out))

(***************************************************************************)
(* The validator on its own: one URL, validated while the resolver's       *)
(* answer for its hostname changes.                                        *)
(***************************************************************************)
DnsAnswers == {<<93, 184, 216, 34>>, <<10, 0, 0, 1>>, <<127, 0, 0, 1>>}

\* A call of _validate_url(vurl).
Validate ==
    /\ Len(vlog) < MaxValidations
    /\ vlog' = Append(vlog, [dns |-> dns, verdict |-> _validate_url(vurl)])
    /\ UNCHANGED <<vurl, dns>>
    /\ UNCHANGED svars

\* The DNS record of the hostname changes.
Rebind ==
    /\ \E a \in DnsAnswers \ {dns} : dns' = a
    /\ UNCHANGED <<vurl, vlog>>
    /\ UNCHANGED svars

ServiceInit ==
    /\ storage = EmptyDir
    /\ calls = [c \in Calls |-> IdleCall]
    /\ nextId = 1
    /\ deleted = {}
    /\ results = {}
    /\ answer = NoAnswer
    /\ upcall = IdleUpload
    /\ uploaded = {}

InitValidate ==
    /\ vurl \in Urls
    /\ vlog = <<>>
    /\ dns = <<93, 184, 216, 34>>
    /\ ServiceInit

SpecValidate == InitValidate /\ [][Validate]_vars

\* The URLs whose host is a name, for the runs with a changing resolver.
NamedUrls ==
    {u \in Urls : /\ u.host.kind = "name"
                  /\ u.scheme \in {"http", "https", "ftp"}
                  /\ u.bracket = "none"}

InitRebind ==
    /\ vurl \in NamedUrls
    /\ vlog = <<>>
    /\ dns \in DnsAnswers
    /\ ServiceInit

NextRebind == Validate \/ Rebind

SpecRebind == InitRebind /\ [][NextRebind]_vars

(***************************************************************************)
(* The service: download_file calls interleaved at their suspension        *)
(* points with each other and with delete_file and get_metadata calls.     *)
(***************************************************************************)
Init ==
    /\ vurl = HttpUrl("", NameHost(<<>>), "")
    /\ vlog = <<>>
    /\ dns = <<93, 184, 216, 34>>
    /\ ServiceInit

Next ==
    \/ \E c \in Calls, x \in Exchanges :
            DownloadStart(c, x.req, x.resp) /\ UNCHANGED <<vvars, answer, upvars>>
    \/ \E c \in Calls : DownloadOpen(c) /\ UNCHANGED <<vvars, answer, upvars>>
    \/ \E c \in Calls : DownloadWrite(c) /\ UNCHANGED <<vvars, answer, upvars>>
    \/ \E c \in Calls, name \in {"ConnectionError", "OSError"} :
            DownloadStreamError(c, name) /\ UNCHANGED <<vvars, answer, upvars>>
    \/ \E c \in Calls : DownloadFinish(c) /\ UNCHANGED <<vvars, answer, upvars>>
    \/ \E c \in Calls : DownloadReturn(c) /\ UNCHANGED <<vvars, answer, upvars>>
    \/ \E file_id \in Ids : DeleteFile(file_id) /\ UNCHANGED <<vvars, answer, upvars>>
    \/ \E file_id \in Ids : GetMetadata(file_id) /\ UNCHANGED <<vvars, answer, upvars>>

Spec == Init /\ [][Next]_vars

(***************************************************************************)
(* download_file run by one caller, over every shape of URL path, query    *)
(* and response headers.                                                   *)
(***************************************************************************)
NextResolve ==
    \/ /\ calls[1].pc = "idle"
       /\ \E x \in ResolveExchanges :
            DownloadStart(1, x.req, x.resp) /\ UNCHANGED <<vvars, answer, upvars>>
    \/ DownloadOpen(1) /\ UNCHANGED <<vvars, answer, upvars>>
    \/ DownloadWrite(1) /\ UNCHANGED <<vvars, answer, upvars>>
    \/ DownloadFinish(1) /\ UNCHANGED <<vvars, answer, upvars>>

SpecResolve == Init /\ [][NextResolve]_vars

(***************************************************************************)
(* download_file run by one caller, with responses that redirect.          *)
(***************************************************************************)
NextFetch ==
    \/ /\ calls[1].pc = "idle"
       /\ \E x \in FetchExchanges :
            DownloadStart(1, x.req, x.resp) /\ UNCHANGED <<vvars, answer, upvars>>
    \/ DownloadOpen(1) /\ UNCHANGED <<vvars, answer, upvars>>
    \/ DownloadWrite(1) /\ UNCHANGED <<vvars, answer, upvars>>
    \/ \E name \in {"ConnectionError", "OSError"} :
            DownloadStreamError(1, name) /\ UNCHANGED <<vvars, answer, upvars>>
    \/ DownloadFinish(1) /\ UNCHANGED <<vvars, answer, upvars>>
    \/ DownloadReturn(1) /\ UNCHANGED <<vvars, answer, upvars>>

SpecFetch == Init /\ [][NextFetch]_vars

(***************************************************************************)
(* The files of the service: uploads, a download, deletes and metadata     *)
(* reads, interleaved at their suspension points, from an empty directory. *)
(***************************************************************************)
NextFiles ==
    \/ /\ upcall.pc = "idle"
       /\ \E filename \in UploadNames, size \in {0, MaxBody} :
            UploadStart(filename, size) /\ UNCHANGED <<vvars, answer>>
    \/ UploadOpen /\ UNCHANGED <<vvars, answer>>
    \/ UploadWrite /\ UNCHANGED <<vvars, answer>>
    \/ UploadFinish /\ UNCHANGED <<vvars, answer>>
    \/ UploadReturn /\ UNCHANGED <<vvars, answer>>
    \/ /\ calls[1].pc = "idle"
       /\ nextId <= MaxCalls
       /\ \E x \in FileExchanges :
            DownloadStart(1, x.req, x.resp) /\ UNCHANGED <<vvars, answer, upvars>>
    \/ DownloadOpen(1) /\ UNCHANGED <<vvars, answer, upvars>>
    \/ DownloadWrite(1) /\ UNCHANGED <<vvars, answer, upvars>>
    \/ DownloadStreamError(1, "ConnectionError") /\ UNCHANGED <<vvars, answer, upvars>>
    \/ DownloadFinish(1) /\ UNCHANGED <<vvars, answer, upvars>>
    \/ DownloadReturn(1) /\ UNCHANGED <<vvars, answer, upvars>>
    \/ \E file_id \in Ids : DeleteFile(file_id) /\ UNCHANGED <<vvars, answer, upvars>>
    \/ \E file_id \in Ids : GetMetadata(file_id) /\ UNCHANGED <<vvars, answer, upvars>>

SpecFiles == Init /\ [][NextFiles]_vars

(***************************************************************************)
(* The storage requests on a directory as earlier runs of the service left *)
(* it: for each id no file, an uploaded or downloaded file, a GRIB file    *)
(* with the index file of a read beside it, or two data files of one stem  *)
(* put there by hand.                                                      *)
(***************************************************************************)
DirShapes ==
    { {}, {<<"grib2">>}, {<<"nc">>}, {<<"txt">>}, {<<"grib2">>, <<"grib2", "idx">>},
      {<<"grib">>, <<"nc">>} }
Directories ==
    { [n \in UNION {{FileName(i, e) : e \in shape[i]} : i \in Ids} |-> 1] :
          shape \in [Ids -> DirShapes] }

InitStorage ==
    /\ vurl = HttpUrl("", NameHost(<<>>), "")
    /\ vlog = <<>>
    /\ dns = <<93, 184, 216, 34>>
    /\ storage \in Directories
    /\ calls = [c \in Calls |-> IdleCall]
    /\ nextId = 1
    /\ deleted = {}
    /\ results = {}
    /\ answer = NoAnswer
    /\ upcall = IdleUpload
    /\ uploaded = {}

NextStorage ==
    \/ \E file_id \in Ids : FindFile(file_id) /\ UNCHANGED <<vvars, upvars>>
    \/ \E file_id \in Ids : MetadataRequest(file_id) /\ UNCHANGED <<vvars, upvars>>
    \/ \E file_id \in Ids : DataRequest(file_id) /\ UNCHANGED <<vvars, upvars>>
    \/ \E file_id \in FileIdTexts : DeleteRequest(file_id) /\ UNCHANGED <<vvars, upvars>>
    \/ ListRequest /\ UNCHANGED <<vvars, upvars>>

SpecStorage == InitStorage /\ [][NextStorage]_vars

(***************************************************************************)
(* The claims about _validate_url, stated on the text of the URL.          *)
(***************************************************************************)
\* The verdicts recorded for vurl.
Verdicts == {vlog[i].verdict : i \in 1..Len(vlog)}
Rejected400(v) == v.exc = "HTTPException" /\ v.status = 400

\* The scheme of the URL, schemes being case-insensitive.
UrlSchemeIsHttp(u) == u.scheme \in {"http", "https", "HTTP"}

\* The URL is well formed: brackets balanced, and only around an IPv6 text.
UrlWellFormed(u) ==
    \/ u.bracket = "none" /\ u.host.kind # "v6"
    \/ u.bracket = "both" /\ u.host.kind = "v6"

\* The host text is an IPv4 address a.b.c.d.
HostIsV4(u) ==
    /\ u.host.kind = "dotted"
    /\ Len(u.host.parts) = 4
    /\ \A i \in 1..4 : u.host.parts[i] \in 0..255
HostIsV6(u) == u.host.kind = "v6"

\* 10/8, 172.16/12, 192.168/16, 127/8, 169.254/16, multicast 224/4,
\* reserved 240/4.
V4Listed(p) ==
    \/ p[1] = 10
    \/ p[1] = 172 /\ p[2] \in 16..31
    \/ p[1] = 192 /\ p[2] = 168
    \/ p[1] = 127
    \/ p[1] = 169 /\ p[2] = 254
    \/ p[1] \in 224..239
    \/ p[1] \in 240..255

\* ::1, unique-local fc00::/7, link-local fe80::/10, multicast ff00::/8 and
\* the ranges the IETF reserves.
V6Listed(g) ==
    \/ g = <<0, 0, 0, 0, 0, 0, 0, 1>>
    \/ g[1] \in 64512..65023
    \/ g[1] \in 65152..65215
    \/ g[1] \in 65280..65535
    \/ g[1] \in 0..8191
    \/ g[1] \in 16384..64511
    \/ g[1] \in 65024..65151

HostIsListedAddress(u) ==
    \/ HostIsV4(u) /\ V4Listed(u.host.parts)
    \/ HostIsV6(u) /\ V6Listed(u.host.parts)

\* C1: a URL whose host is a literal IPv4 or IPv6 address that is
\* private-use, loopback, link-local, multicast or reserved is rejected by
\* _validate_url with a status-400 error.
C1_ListedAddressRejected ==
    HostIsListedAddress(vurl) => \A v \in Verdicts : Rejected400(v)

C1_Witness ==
    /\ vurl = [scheme |-> "http", userinfo |-> FALSE,
               host |-> DottedHost(<<192, 168, 0, 1>>), bracket |-> "none",
               port |-> ""]
    /\ \E v \in Verdicts : Rejected400(v) /\ v.detail = DetailPrivate

\* The details that mention HTTP.
MentionsHttp(detail) ==
    \E i \in 1..Len(detail) : detail[i] = "Only HTTP and HTTPS URLs are allowed"

HostIsLocalName(u) ==
    /\ u.host.kind = "name"
    /\ LET l == u.host.labels
           n == Len(l)
       IN  \/ n = 1 /\ l[1] \in {"localhost", "LocalHost"}
           \/ n = 2 /\ l[1] \in {"localhost", "LocalHost"} /\ l[2] = "localdomain"
           \/ n >= 2 /\ l[n] \in {"local", "LOCAL"}

\* C3: an http/https URL whose host is not an IP literal and is localhost,
\* localhost.localdomain or a name ending with .local, in any letter case,
\* with or without a port, is rejected with a status-400 error.
C3_LocalNameRejected ==
    UrlSchemeIsHttp(vurl) /\ HostIsLocalName(vurl) =>
        \A v \in Verdicts : Rejected400(v)

C3_Witness ==
    /\ vurl.scheme = "http"
    /\ vurl.host = NameHost(<<"LocalHost", "localdomain">>)
    /\ vurl.port = "8000"
    /\ vurl.bracket = "none"
    /\ \E v \in Verdicts : Rejected400(v) /\ v.detail = DetailLocalhost

\* The address a well-formed URL's host denotes.
HostAddress(u) ==
    [ok |-> TRUE, version |-> IF HostIsV4(u) THEN 4 ELSE 6, addr |-> u.host.parts]

\* C7: the checks run in a fixed order and the first that fails gives the
\* reason: parsing, the scheme, the empty host, then the address checks
\* (private, loopback, link-local, multicast before reserved) or the
\* hostname checks; every rejection is a status-400 HTTPException.
C7_FirstFailingCheckDecides ==
    \A v \in Verdicts :
        /\ v.exc \in {"none", "HTTPException"}
        /\ v.exc = "HTTPException" => v.status = 400
        /\ IF ~UrlWellFormed(vurl)
           THEN Rejected400(v) /\ v.detail[1] = "Invalid URL: "
           ELSE IF ~UrlSchemeIsHttp(vurl) THEN v.detail = DetailScheme
           ELSE IF HostEmpty(vurl.host) THEN v.detail = DetailInvalid
           ELSE IF HostIsV4(vurl) \/ HostIsV6(vurl)
           THEN LET ip == HostAddress(vurl) IN
                /\ (is_private(ip) \/ is_loopback(ip) \/ is_link_local(ip)
                        \/ is_multicast(ip)) => v.detail = DetailPrivate
                /\ v.detail = DetailReserved => is_reserved(ip)
           ELSE /\ HostIsLocalName(vurl) =>
                        v.detail \in {DetailLocalhost, DetailDotLocal}
                /\ v.detail = DetailDotLocal =>
                        LowerLabels(vurl.host.labels) \notin
                            {<<"localhost">>, <<"localhost", "localdomain">>}

\* An address that is private and reserved at once is reported as private.
C7_Witness ==
    /\ vurl.scheme = "https"
    /\ vurl.host = DottedHost(<<240, 0, 0, 1>>)
    /\ vurl.bracket = "none"
    /\ \E v \in Verdicts : v.detail = DetailPrivate

\* C8: an http/https URL with a non-empty host that is an IP literal
\* neither private, loopback, link-local, multicast nor reserved, or a
\* hostname that is not localhost, not localhost.localdomain and does not
\* end with .local, is allowed: _validate_url raises nothing.
C8_PublicUrlAllowed ==
    (/\ UrlWellFormed(vurl)
     /\ UrlSchemeIsHttp(vurl)
     /\ ~HostEmpty(vurl.host)
     /\ IF HostIsV4(vurl) \/ HostIsV6(vurl)
        THEN LET ip == HostAddress(vurl) IN
             ~(is_private(ip) \/ is_loopback(ip) \/ is_link_local(ip)
                    \/ is_multicast(ip) \/ is_reserved(ip))
        ELSE ~HostIsLocalName(vurl))
    => \A v \in Verdicts : v = Returned

C8_Witness ==
    /\ vurl.scheme = "https"
    /\ vurl.host = NameHost(<<"example", "com">>)
    /\ Returned \in Verdicts

\* The lexical conditions under which _validate_url lets a named host pass.
NamePasses(u) ==
    /\ UrlSchemeIsHttp(u)
    /\ u.host.kind = "name"
    /\ ~HostEmpty(u.host)
    /\ ~HostIsLocalName(u)

PrivateAnswers == {<<10, 0, 0, 1>>, <<127, 0, 0, 1>>}

UrlRejected(call) == _validate_url(call.req.url).exc # "none"

\* C4: a download_file call whose URL the validator rejects fails with the
\* validator's status-400 error, unchanged, before any GET is sent, before
\* an identifier is generated and without a change to the storage.
C4_RejectionBeforeAnyEffect ==
    [][\A c \in Calls :
        (calls[c].pc = "idle" /\ calls'[c].pc # "idle" /\ UrlRejected(calls'[c]))
        => /\ calls'[c].pc = "failed"
           /\ Rejected400(calls'[c].out)
           /\ calls'[c].out = _validate_url(calls'[c].req.url)
           /\ calls'[c].gets = 0
           /\ calls'[c].id = 0
           /\ nextId' = nextId
           /\ storage' = storage]_vars

C4_Witness ==
    \E c \in Calls :
        /\ calls[c].pc = "failed"
        /\ calls[c].req.url.host = DottedHost(<<192, 168, 0, 1>>)
        /\ calls[c].out = HTTPException(400, DetailPrivate)
        /\ calls[c].gets = 0

\* C5: GET /api/grib/download with a URL the validator rejects is answered
\* with status 400 and the validator's reason as the detail.
C5_RejectionAnswered400 ==
    \A c \in Calls :
        calls[c].pc = "failed" /\ UrlRejected(calls[c])
            => /\ calls[c].http.status = 400
               /\ calls[c].http.detail = _validate_url(calls[c].req.url).detail

\* C6: when reading or writing the streamed body fails after the file was
\* opened, no file {id}.* of that download is left when the error leaves
\* download_file.
C6_PartialFileDeleted ==
    \A c \in Calls :
        calls[c].pc = "failed" /\ calls[c].out.exc \in {"ConnectionError", "OSError"}
            => \A n \in DOMAIN storage : n.id # calls[c].id

\* C10: a file a download_file call has returned is found by _find_file
\* under the returned id, exists and has the returned size, until a
\* delete_file of that id; after it no file {id}.* is left, data file or
\* sidecar, and _find_file and a further delete_file raise
\* FileNotFoundError.
C10_StorageRoundTrip ==
    /\ \A r \in results :
            r.id \notin deleted =>
                LET found == _find_file(storage, r.id) IN
                /\ found.out = Returned
                /\ found.paths = {r.path}
                /\ r.path \in DOMAIN storage
                /\ storage[r.path] = r.size
    /\ \A id \in deleted :
            /\ \A n \in DOMAIN storage : n.id # id
            /\ _find_file(storage, id).out = FileNotFoundError
            /\ delete_file(storage, id).out = FileNotFoundError

\* A download of a full body, stored as {id}.grib2, whose id was then deleted.
C10_Witness ==
    \E r \in results :
        /\ r.size = MaxBody
        /\ r.id \in deleted
        /\ Suffix(r.path) = "grib2"

(***************************************************************************)
(* The claims about download_file's result, file name and extension.       *)
(***************************************************************************)
\* The calls whose download has succeeded, and those past name resolution.
Succeeded(c) == calls[c].pc = "done"
Resolved(c) == calls[c].pc \in {"open", "write", "done"}

\* The Content-Disposition header names a file: it has a filename or
\* filename* parameter with a value.
HeaderNamesFile(cd) == \E i \in 1..Len(cd) : cd[i].value # NoName

GeneratedName(file_id, ext) == <<"grib_download_" \o ToString(file_id), ext>>

\* C11: a successful download of a body of N bytes returns size N, the size
\* of the file at the returned path; when neither the Content-Disposition
\* header nor the URL path names a file, the extension is grib2 and the
\* display file name is grib_download_{id}.grib2.
C11_SizeAndGeneratedName ==
    \A c \in Calls : Succeeded(c) =>
        LET r == calls[c].result IN
        /\ r.size = calls[c].resp.body
        /\ r.path \in DOMAIN storage
        /\ storage[r.path] = calls[c].resp.body
        /\ (~HeaderNamesFile(calls[c].resp.cd) /\ calls[c].req.pathname = NoName)
              => /\ Suffix(r.path) = "grib2"
                 /\ r.filename = GeneratedName(r.id, "grib2")

C11_Witness ==
    \E c \in Calls :
        /\ Succeeded(c)
        /\ calls[c].resp.body = MaxBody
        /\ calls[c].req.pathname = NoName
        /\ calls[c].result.size = MaxBody
        /\ calls[c].result.filename = GeneratedName(calls[c].id, "grib2")

\* A text with a path separator in it.
HasSeparator(text) == \E i \in 1..Len(text) : HasSlash(text[i])

\* C12: every file download_file writes is stored at {storage_path}/{id}{ext}:
\* directly in the storage directory, its name made of the generated id and
\* the resolved extension only, whatever the display file name (from the
\* Content-Disposition header, the URL path or the file query parameter)
\* contains, path separators and ".." included.
C12_StoredUnderIdAndExtension ==
    /\ \A n \in DOMAIN storage :
        /\ \E c \in Calls : calls[c].id = n.id /\ n.exts = <<calls[c].ext>>
        /\ Len(n.exts) = 1
        /\ n.exts[1] \in GRIB_EXTENSIONS
        /\ ~HasSeparator(n.exts)
    /\ \A c \in Calls :
        /\ calls[c].pc \in {"write", "done"}
              => FileName(calls[c].id, <<calls[c].ext>>) \in DOMAIN storage
        /\ Succeeded(c)
              => calls[c].result.path = FileName(calls[c].id, <<calls[c].ext>>)

C12_Witness ==
    \E c \in Calls :
        /\ Succeeded(c)
        /\ calls[c].filename = <<"", "", "/evil", "nc">>
        /\ calls[c].result.path = FileName(calls[c].id, <<"nc">>)
        /\ DOMAIN storage = {FileName(calls[c].id, <<"nc">>)}

\* The header's first parameter is a plain filename parameter with a value.
PlainFilenameFirst(cd) == cd # NoHeader /\ ~cd[1].star /\ cd[1].value # NoName

\* The last segment of the URL path, percent-decoded.
UrlSegment(req) == PathName(unquote(req.pathname))

StarOnly(cd) ==
    /\ cd # NoHeader
    /\ \A i \in 1..Len(cd) : cd[i].star
    /\ cd[1].value # NoName

\* C14: when the Content-Disposition header carries the name only in a
\* filename* parameter (attachment; filename*=UTF-8''storm.grib2), with no
\* plain filename parameter, download_file takes the file name from that
\* parameter and does not fall through to the URL path.
C14_StarFilenameUsed ==
    \A c \in Calls : (Resolved(c) /\ StarOnly(calls[c].resp.cd)) =>
        calls[c].resolved = unquote(calls[c].resp.cd[1].value)

\* The file name comes from the URL path, whose last segment ends with .pl.
NameFromScript(c) ==
    /\ Resolved(c)
    /\ ~HeaderNamesFile(calls[c].resp.cd)
    /\ EndsWith(UrlSegment(calls[c].req), "pl")

\* The file name is not due to the file parameter: it is the header's name,
\* or the URL's last segment when that does not end with .pl.
FileParamNotConsulted(c) ==
    /\ PlainFilenameFirst(calls[c].resp.cd)
          => calls[c].resolved = unquote(calls[c].resp.cd[1].value)
    /\ (~HeaderNamesFile(calls[c].resp.cd)
            /\ ~EndsWith(UrlSegment(calls[c].req), "pl"))
          => calls[c].resolved = UrlSegment(calls[c].req)

\* C15 as stated: when the file name comes from the URL path and the last
\* segment ends with .pl, the first value of the file query parameter is
\* used if the parameter is present, the script's name if it is absent.
C15_FileParamUsedWhenPresent ==
    \A c \in Calls : NameFromScript(c) =>
        LET values == calls[c].req.fileparam IN
        IF values # NoParam
        THEN calls[c].resolved = unquote(values[1])
        ELSE calls[c].resolved = UrlSegment(calls[c].req)

\* The values of the file parameter that are not blank.
NonBlank(values) == SelectSeq(values, LAMBDA v : v # NoName)

\* C15: when the file name comes from the URL path and the last segment ends
\* with .pl, the first non-blank value of the file query parameter is used
\* if there is one; if the parameter is absent or has blank values only the
\* script's name is kept.  The parameter is not consulted when the header
\* gave the name or the segment does not end with .pl.
C15_FileParamOfScript ==
    \A c \in Calls :
        /\ NameFromScript(c) =>
            LET values == NonBlank(calls[c].req.fileparam) IN
            IF values # <<>>
            THEN calls[c].resolved = unquote(values[1])
            ELSE calls[c].resolved = UrlSegment(calls[c].req)
        /\ Resolved(c) => FileParamNotConsulted(c)

C15_Witness ==
    \E c \in Calls :
        /\ NameFromScript(c)
        /\ calls[c].req.pathname = <<"filter", "pl">>
        /\ calls[c].req.fileparam = << NoName, <<"gfs", "grb2">>, <<"other", "grib">> >>
        /\ calls[c].resolved = <<"gfs", "grb2">>
        /\ calls[c].ext = "grb2"

\* C16: the resolved extension is always one of .grib, .grib2, .grb, .grb2,
\* .nc: the suffix of the file name when that is one of them, .grib2
\* otherwise (also when there is no file name); the Content-Type of the
\* response has no part in it.
C16_ExtensionAllowlisted ==
    \A c \in Calls : Resolved(c) =>
        /\ calls[c].ext \in {"grib", "grib2", "grb", "grb2", "nc"}
        /\ calls[c].ext =
             IF calls[c].resolved # NoName
                  /\ PathSuffix(calls[c].resolved) \in {"grib", "grib2", "grb", "grb2", "nc"}
             THEN PathSuffix(calls[c].resolved)
             ELSE "grib2"

C16_Witness ==
    \E c \in Calls :
        /\ Resolved(c)
        /\ calls[c].resp.ct = "text/html"
        /\ calls[c].resolved = NoName
        /\ calls[c].ext = "grib2"

\* C17: the display file name of every successful download ends with the
\* resolved extension, which is also the suffix of the stored file; a file
\* name that does not end with the extension has its suffix replaced by it
\* (stem + extension), one that ends with it is returned unchanged.
C17_DisplayNameEndsWithExtension ==
    \A c \in Calls :
        /\ Resolved(c) =>
            /\ EndsWith(calls[c].filename, calls[c].ext)
            /\ (calls[c].resolved # NoName /\ EndsWith(calls[c].resolved, calls[c].ext))
                  => calls[c].filename = calls[c].resolved
            /\ (calls[c].resolved # NoName /\ ~EndsWith(calls[c].resolved, calls[c].ext))
                  => calls[c].filename = PathStem(calls[c].resolved) \o <<calls[c].ext>>
        /\ Succeeded(c) =>
            /\ calls[c].result.filename = calls[c].filename
            /\ Suffix(calls[c].result.path) = calls[c].ext
            /\ calls[c].result.path \in DOMAIN storage

C17_Witness ==
    \E c \in Calls :
        /\ Succeeded(c)
        /\ calls[c].resolved = <<"archive", "tar", "gz">>
        /\ calls[c].result.filename = <<"archive", "tar", "grib2">>
        /\ Suffix(calls[c].result.path) = "grib2"

(***************************************************************************)
(* The claims about the storage requests.                                  *)
(***************************************************************************)
Allowlisted(name) == Suffix(name) \in {"grib", "grib2", "grb", "grb2", "nc"}

\* The files {id}.* of the directory the last request found.
MatchesBefore == {n \in DOMAIN answer.before : n.id = answer.file_id}

\* C18: when several files {id}.* exist, _find_file(id) returns one with an
\* allowlisted data suffix if there is one; a file with another suffix (an
\* .idx index file) is returned only when no match is allowlisted.
C18_DataFilePreferred ==
    (answer.op = "find" /\ MatchesBefore # {}) =>
        /\ answer.out.exc = "none"
        /\ answer.path \in MatchesBefore
        /\ (\E n \in MatchesBefore : Allowlisted(n)) => Allowlisted(answer.path)
        /\ ~Allowlisted(answer.path) => \A n \in MatchesBefore : ~Allowlisted(n)

C18_Witness ==
    /\ answer.op = "find"
    /\ MatchesBefore = {FileName(answer.file_id, <<"grib2">>),
                        FileName(answer.file_id, <<"grib2", "idx">>)}
    /\ answer.path = FileName(answer.file_id, <<"grib2">>)

\* C19: for an id with no file {id}.*, _find_file, get_metadata,
\* get_grib_data and delete_file raise FileNotFoundError and leave the
\* storage unchanged, and the data, metadata and delete endpoints answer
\* 404.
C19_MissingIdNotFound ==
    (/\ answer.op \in {"find", "metadata", "data", "delete"}
     /\ answer.file_id \in Ids
     /\ MatchesBefore = {}) =>
        /\ answer.out.exc = "FileNotFoundError"
        /\ storage = answer.before
        /\ answer.op \in {"data", "metadata", "delete"} => answer.http.status = 404

C19_Witness ==
    /\ answer.op = "delete"
    /\ MatchesBefore = {}
    /\ answer.before # EmptyDir
    /\ storage = answer.before
    /\ answer.http.status = 404

(***************************************************************************)
(* The claims about concurrent downloads.                                  *)
(***************************************************************************)
\* The path {id}{extension} of call c, once its name is resolved.
OwnPath(c) == FileName(calls[c].id, <<calls[c].ext>>)
Writing(c) == calls[c].pc \in {"write", "done"}

\* C20: under any interleaving of concurrent download_file calls, at their
\* awaited chunk writes, every call writes to its own {id}{extension} path:
\* the paths of two downloads differ, no download writes into or truncates
\* the file of another, and each completed file holds its own response body.
C20_DownloadsKeepApart ==
    /\ \A c1, c2 \in Calls :
        (c1 # c2 /\ Resolved(c1) /\ Resolved(c2))
            => calls[c1].id # calls[c2].id /\ OwnPath(c1) # OwnPath(c2)
    /\ \A c \in Calls, r \in results :
        (Resolved(c) /\ r # calls[c].result) => r.path # OwnPath(c)
    /\ \A r1, r2 \in results : r1.path = r2.path => r1 = r2
    /\ \A c \in Calls :
        (Writing(c) /\ OwnPath(c) \in DOMAIN storage)
            => storage[OwnPath(c)] = calls[c].got
    /\ \A c \in Calls :
        Succeeded(c) => /\ OwnPath(c) \in DOMAIN storage
                        /\ storage[OwnPath(c)] = calls[c].resp.body

C20_Witness ==
    \E c1, c2 \in Calls :
        /\ c1 # c2
        /\ calls[c1].pc = "write" /\ calls[c1].got = MaxBody
        /\ Succeeded(c2) /\ calls[c2].resp.body = MaxBody
        /\ calls[c1].ext = calls[c2].ext
        /\ OwnPath(c1) # OwnPath(c2)
        /\ storage[OwnPath(c1)] = MaxBody /\ storage[OwnPath(c2)] = MaxBody

(***************************************************************************)
(* The claims about listings, uploads and requests.                        *)
(***************************************************************************)
\* The listings list_files can return in this state.
Listings == UNION {list_files(storage, ctime) : ctime \in Ctimes(storage)}

\* C21: download_file reports its result only after the write has
\* completed: under any interleaving with list_files, delete_file and other
\* downloads, whenever it returns a result the file at the returned path
\* exists at that moment and its size is the returned size, the full length
\* of the body; a list_files call during the write may return the same id
\* with a smaller size.
C21_ResultAfterWrite ==
    \A c \in Calls : Succeeded(c) =>
        /\ calls[c].got = calls[c].resp.body
        /\ calls[c].result.path \in DOMAIN storage
        /\ storage[calls[c].result.path] = calls[c].result.size
        /\ calls[c].result.size = calls[c].resp.body
        /\ \A files \in Listings : \A k \in 1..Len(files) :
              files[k].id = calls[c].id => files[k].size = calls[c].result.size

C21_Witness ==
    \E c \in Calls :
        /\ calls[c].pc = "write"
        /\ calls[c].got < calls[c].resp.body
        /\ \E files \in Listings : \E k \in 1..Len(files) :
              /\ files[k].id = calls[c].id
              /\ files[k].size < calls[c].resp.body
        /\ \E b \in Calls : b # c /\ Succeeded(b)

\* The call ended with the error of its GET (connection error, timeout or
\* non-2xx status).
GetFailed(c) ==
    calls[c].pc = "failed" /\ calls[c].out.exc = "RequestException"

\* C22: each download_file call issues at most one HTTP GET; when that
\* attempt fails the call ends with an error, no second attempt is made,
\* and no file is created for the call: the storage directory is unchanged.
C22_AtMostOneGet ==
    \A c \in Calls :
        /\ calls[c].gets <= 1
        /\ GetFailed(c) =>
            /\ calls[c].http.status = 500
            /\ \A n \in DOMAIN storage : n.id # calls[c].id

\* C27: download_file never sends an HTTP request to a host _validate_url
\* would reject: every request of one download, those made by following a
\* redirect included, goes to a host that passes the validator's checks.
C27_EveryRequestValidated ==
    \A c \in Calls : \A k \in 1..Len(calls[c].sent) :
        _validate_url(calls[c].sent[k]).exc = "none"

\* The stored files whose name ends with an allowlisted extension, in the
\* directory the last request found.
ListedBefore == {n \in DOMAIN answer.before : Allowlisted(n)}

\* C23: list_files returns the stored files whose name ends with an
\* allowlisted extension, each id (file stem) once even when several files
\* share the stem, ordered by uploaded_at from newest to oldest; it does not
\* modify the storage directory.
C23_ListingOfDataFiles ==
    answer.op = "list" =>
        LET files == answer.files IN
        /\ {files[k].id : k \in 1..Len(files)} = {n.id : n \in ListedBefore}
        /\ \A k \in 1..Len(files) :
              /\ files[k].path \in ListedBefore
              /\ files[k].path.id = files[k].id
              /\ files[k].size = answer.before[files[k].path]
        /\ \A j, k \in 1..Len(files) : j # k => files[j].id # files[k].id
        /\ \A j, k \in 1..Len(files) :
              j < k => files[j].uploaded_at >= files[k].uploaded_at
        /\ storage = answer.before

C23_Witness ==
    /\ answer.op = "list"
    /\ Len(answer.files) = MaxCalls
    /\ answer.files[1].uploaded_at > answer.files[MaxCalls].uploaded_at
    /\ \E n, m \in ListedBefore : n # m /\ n.id = m.id

\* C26: for any file_id text passed to delete_file (the DELETE endpoint
\* takes it from the request path and expands it in the glob pattern
\* "{file_id}.*"), only files of that one id are removed: every stored file
\* whose id (name stem) differs from file_id stays in place, unchanged.
C26_DeleteLeavesOtherIds ==
    answer.op = "delete" =>
        \A n \in DOMAIN answer.before :
            n.id # answer.file_id
                => n \in DOMAIN storage /\ storage[n] = answer.before[n]

\* The extension and the file name the claim gives an upload.
C24_Ext ==
    IF upcall.filename = NoName \/ PathSuffix(upcall.filename) = ""
    THEN "grib" ELSE PathSuffix(upcall.filename)
C24_Name == IF upcall.filename = NoName THEN <<"upload", "grib">> ELSE upcall.filename

\* The id of an upload that has not yet created its file is fresh: no stored
\* file, no download and no earlier upload has it.
C24_FreshId ==
    upcall.pc = "open" =>
        /\ \A n \in DOMAIN storage : n.id # upcall.id
        /\ \A c \in Calls : calls[c].id # upcall.id
        /\ \A u \in uploaded : u.id # upcall.id

\* What a successful upload returns and what it has stored.
C24_Stored ==
    upcall.pc = "done" =>
        /\ upcall.result.id = upcall.id
        /\ upcall.result.path = FileName(upcall.id, <<C24_Ext>>)
        /\ upcall.result.path \in DOMAIN storage
        /\ storage[upcall.result.path] = upcall.size
        /\ upcall.result.size = upcall.size
        /\ upcall.result.filename = C24_Name

\* A step of upload_file leaves the files of every other id as they are.
C24_OthersUnchanged ==
    upcall' # upcall =>
        \A n \in DOMAIN storage :
            n.id # upcall'.id /\ n.id # upcall.id
                => n \in DOMAIN storage' /\ storage'[n] = storage[n]

\* C24: upload_file stores the uploaded content at {storage_path}/{id}{ext}
\* with a freshly generated id, where ext is the suffix of the original
\* filename, or .grib when the filename is missing or has no suffix; it
\* returns the original filename (upload.grib when missing), the new id and
\* a size equal to the number of bytes uploaded, and leaves every existing
\* file unchanged.
C24_UploadStores ==
    /\ [](C24_FreshId /\ C24_Stored)
    /\ [][C24_OthersUnchanged]_vars

C24_Witness ==
    /\ upcall.pc = "done"
    /\ upcall.filename = <<"README">>
    /\ upcall.size = MaxBody
    /\ upcall.result.path = FileName(upcall.id, <<"grib">>)
    /\ \E n \in DOMAIN storage : n.id # upcall.id

\* C25: every file stored by a successful upload_file is returned by
\* list_files, under the id that upload_file returned, in every later state
\* until delete_file is called with that id, whatever the suffix of the
\* original filename was.
C25_UploadedIsListed ==
    \A u \in uploaded : u.id \notin deleted =>
        \A files \in Listings :
            \E k \in 1..Len(files) : files[k].id = u.id /\ files[k].path = u.path

\* C28: in every storage state reachable through upload_file, download_file
\* and delete_file (with sidecar index files possibly created next to a data
\* file), list_files and _find_file agree: for every entry e returned by
\* list_files, _find_file(e.id) returns e.path.
C28_ListAndFindAgree ==
    \A files \in Listings : \A k \in 1..Len(files) :
        LET found == _find_file(storage, files[k].id) IN
        /\ found.out.exc = "none"
        /\ found.paths = {files[k].path}

C28_Witness ==
    \E n \in DOMAIN storage :
        /\ n.exts = <<"grib2">>
        /\ FileName(n.id, <<"grib2", "idx">>) \in DOMAIN storage
        /\ \E files \in Listings : Len(files) = MaxCalls
        /\ \E u \in uploaded : u.path = n

====
